---------------------------- MODULE Spec2Model ----------------------------
(***************************************************************************)
(* State-machine model of the WebAR image-tracking page (src/main.js):     *)
(* the startup sequence run by init(), the tracking-session calls, the     *)
(* anchor's found/lost callbacks, the tap / touch / control-panel          *)
(* handlers and the animate() render loop.                                 *)
(*                                                                         *)
(* Numbers.  Scales are exact rationals <<n, d>> in lowest terms (d = 0    *)
(* stands for +Infinity, the value of x / 0 for x > 0).  A yaw is the pair *)
(* [steps, hund] standing for steps * (PI / 4) + hund * 0.01 radians: the  *)
(* two units the code adds (Math.PI / 4 per tap, 0.01 per frame and per    *)
(* dragged pixel) are incommensurable, so both components are kept.        *)
(* Wall-clock time is counted in whole frame intervals.                    *)
(*                                                                         *)
(* Events.  A click on a control-panel button runs the button's listener   *)
(* and then the window click listener of setupTapInteraction: no listener  *)
(* stops propagation.                                                      *)
(*                                                                         *)
(* Specifications.  Spec is startup with its failures, page visibility,    *)
(* the error banner and the anchor's callbacks, on every origin.           *)
(* SpecRotation and SpecScale follow a secure origin through startup and   *)
(* then the handlers that write the rotation resp. the scale.              *)
(***************************************************************************)
EXTENDS Integers, Sequences, FiniteSets, TLC

\* ------------------------------------------------------------------ bounds
MaxTime == 3
MaxTaps == 2
MaxDrag == 1
MaxStartCalls == 2

\* ------------------------------------------------------------ input sets
Protocols == {"http:", "https:"}
Hostnames == {"localhost", "127.0.0.1", "example.org"}
ProbeOutcomes == {"ok", "notok", "reject"}
StartErrors == {"NotAllowedError", "NotFoundError", "NotReadableError",
                "target", "other"}
TickDeltas == {1, 2}
TouchXs == {0, 1}
FingerOffsets == {<<1, 0>>, <<0, 2>>, <<-4, 0>>}
SliderValues == {<<1, 2>>}

VARIABLES
    protocol, hostname,     \* location.protocol, location.hostname
    probeTarget, probeModel,\* outcome of the two HEAD probes, "pending" before
    pc,                     \* position of init(): see PcValues
    docHidden,              \* document.hidden
    mindarThree,            \* TRUE once new MindARThree(...) has run
    anchorBound,            \* TRUE once setupImageTracking has run
    session,                \* tracking session: Idle/Starting/Running/Stopped
    startCalls,             \* number of mindarThree.start() invocations
    visPending,             \* start() promises of the visibility handler in flight
    startARResult,          \* outcome of init's await startAR(): none/pending/ok/failed
    callLog,                \* sequence of startup components invoked so far
    model,                  \* TRUE once `model` holds the loaded scene
    attachCount,            \* number of anchor.group.add(model) calls
    gestureBound,           \* setupGestureSupport has run
    panelBound,             \* setupControlPanel has run
    animating,              \* animate() has been entered (render loop running)
    errorShown, errorText,  \* error banner: class 'show', textContent
    errorTimers,            \* pending 5 s dismiss timers
    loadingHidden,          \* loading indicator hidden
    isModelVisible, instructionsHidden,
    isPaused,
    rotation,               \* closure variable of setupTapInteraction (PI/4 steps)
    modelRotation,          \* hundredths of a radian
    modelRotY,              \* model.rotation.y as [steps, hund]
    modelScale,             \* rational
    modelScaleXYZ,          \* model.scale (uniform), rational
    touchCount, touchStartX, touchStartDistance,
    animationMixer,         \* TRUE when an AnimationMixer exists
    clock,                  \* model.userData.clock: [running, oldTime]
    mixerTime,              \* playback time of the animation mixer
    now,                    \* wall clock
    lightingEnvironment,    \* active lighting preset
    ambientLight,           \* [color, intensity] of the ambient light
    directionalLight,       \* [color, intensity] of the directional light
    lightHistory,           \* history: the lighting before each of the last
                            \* (up to four) cycleEnvironment calls
    attachSnap,             \* history: model transform and rotation / scale
                            \* state at the post-load anchor.group.add(model),
                            \* and whether a click came just before it
    lastEvent,              \* history: name of the handler that ran last
    lastTrack,              \* history: last anchor event, none/found/lost
    gPhase, gStartScale, gStartDist, gLastDist, gMidOk, gMoves
                            \* history of the pinch gesture: none/active/ended,
                            \* scale and distance at its touchstart, distance
                            \* of its last handled move, and whether every
                            \* earlier move kept start scale * ratio in range,
                            \* and the number of its handled moves (up to 2)

lifeVars == <<protocol, hostname, probeTarget, probeModel, pc, docHidden,
              mindarThree, anchorBound, session, startCalls, visPending,
              startARResult, callLog, attachCount, gestureBound, panelBound,
              animating>>
errVars == <<errorShown, errorText, errorTimers, loadingHidden>>
trackVars == <<isModelVisible, instructionsHidden, lastTrack>>
rotVars == <<rotation, modelRotation, modelRotY>>
scaleVars == <<modelScale, modelScaleXYZ>>
touchVars == <<touchCount, touchStartX, touchStartDistance>>
timeVars == <<animationMixer, clock, mixerTime, now>>
ghostVars == <<gPhase, gStartScale, gStartDist, gLastDist, gMidOk, gMoves>>
lightVars == <<lightingEnvironment, ambientLight, directionalLight,
               lightHistory>>
vars == <<lifeVars, errVars, trackVars, rotVars, scaleVars, touchVars,
          timeVars, ghostVars, lightVars, attachSnap, model, isPaused,
          lastEvent>>

\* ------------------------------------------------------ rational numbers
RECURSIVE GCD(_, _)
GCD(a, b) == IF b = 0 THEN a ELSE GCD(b, a % b)

\* n / d in lowest terms; d = 0 (n > 0) is +Infinity.
Frac(n, d) == IF d = 0 THEN <<1, 0>>
              ELSE LET g == GCD(n, d) IN <<n \div g, d \div g>>

FMul(a, b) == Frac(a[1] * b[1], a[2] * b[2])
FLess(a, b) == a[1] * b[2] < b[1] * a[2]
FLeq(a, b) == a[1] * b[2] <= b[1] * a[2]

ConfigModelScale == <<3, 10>>
ScaleMin == <<1, 10>>
ScaleMax == <<2, 1>>

MathMin(a, b) == IF b[2] = 0 THEN a ELSE IF a[2] = 0 THEN b
                 ELSE IF FLess(b, a) THEN b ELSE a
MathMax(a, b) == IF a[2] = 0 THEN a ELSE IF b[2] = 0 THEN b
                 ELSE IF FLess(a, b) THEN b ELSE a

\* Math.max(0.1, Math.min(2, x))
ClampScale(x) == MathMax(ScaleMin, MathMin(ScaleMax, x))

\* Math.sqrt on the perfect squares the touch offsets produce.
Sqrt(q) == CHOOSE r \in 0..q : r * r = q

\* getDistance(touch1, touch2), the second touch at offset off from the first.
getDistance(off) == Sqrt(off[1] * off[1] + off[2] * off[2])


\* ------------------------------------------------------------- lifecycle
PcValues == {"unscheduled", "scheduled", "checkAssets", "aborted", "startAR",
             "loadModel", "done", "failed"}

\* Variant: the hostname comparison inverted.
IsInsecureOriginInverted(proto, host) ==
    proto # "https:" /\ host = "localhost" /\ host # "127.0.0.1"

\* The condition of the transport-security check.
IsInsecureOrigin(proto, host) ==
    proto # "https:" /\ host # "localhost" /\ host # "127.0.0.1"

\* showError(message): banner shown, loading hidden, a 5 s dismiss timer set.
ShowError(message) ==
    /\ errorText' = message
    /\ errorShown' = TRUE
    /\ loadingHidden' = TRUE
    /\ errorTimers' = errorTimers + 1

Init ==
    /\ protocol \in Protocols
    /\ hostname \in Hostnames
    /\ pc = IF IsInsecureOrigin(protocol, hostname)
            THEN "unscheduled" ELSE "scheduled"
    /\ errorShown = IsInsecureOrigin(protocol, hostname)
    /\ errorText = IF IsInsecureOrigin(protocol, hostname)
                   THEN "WebAR requires HTTPS" ELSE ""
    /\ errorTimers = IF IsInsecureOrigin(protocol, hostname) THEN 1 ELSE 0
    /\ loadingHidden = IsInsecureOrigin(protocol, hostname)
    /\ probeTarget = "pending"
    /\ probeModel = "pending"
    /\ docHidden = FALSE
    /\ mindarThree = FALSE
    /\ anchorBound = FALSE
    /\ session = "Idle"
    /\ startCalls = 0
    /\ visPending = 0
    /\ startARResult = "none"
    /\ callLog = <<>>
    /\ model = FALSE
    /\ attachCount = 0
    /\ gestureBound = FALSE
    /\ panelBound = FALSE
    /\ animating = FALSE
    /\ isModelVisible = FALSE
    /\ instructionsHidden = FALSE
    /\ isPaused = FALSE
    /\ rotation = 0
    /\ modelRotation = 0
    /\ modelRotY = [steps |-> 0, hund |-> 0]
    /\ modelScale = ConfigModelScale
    /\ modelScaleXYZ = <<1, 1>>
    /\ touchCount = 0
    /\ touchStartX = 0
    /\ touchStartDistance = 0
    /\ animationMixer = FALSE
    /\ clock = [running |-> FALSE, oldTime |-> 0]
    /\ mixerTime = 0
    /\ now = 0
    /\ lastEvent = "load"
    /\ lastTrack = "none"
    /\ gPhase = "none"
    /\ gStartScale = <<0, 1>>
    /\ gStartDist = 0
    /\ gLastDist = 0
    /\ gMidOk = TRUE
    /\ gMoves = 0
    /\ lightingEnvironment = "default"
    /\ ambientLight = [color |-> "ffffff", intensity |-> <<4, 5>>]
    /\ directionalLight = [color |-> "ffffff", intensity |-> <<4, 5>>]
    /\ lightHistory = <<>>
    /\ attachSnap = [yaw |-> [steps |-> 0, hund |-> 0], scale |-> <<1, 1>>,
                     rotationState |-> 0, scaleState |-> <<1, 1>>,
                     prev |-> "none"]

\* DOMContentLoaded: init() runs up to its first await (the two HEAD probes).
DOMContentLoaded ==
    /\ pc = "scheduled"
    /\ pc' = "checkAssets"
    /\ lastEvent' = "DOMContentLoaded"
    /\ UNCHANGED <<protocol, hostname, probeTarget, probeModel,
                   docHidden, mindarThree, anchorBound,
                   session, startCalls, visPending, startARResult, callLog,
                   attachCount, gestureBound, panelBound, animating>>
    /\ UNCHANGED <<errVars, trackVars, rotVars, scaleVars, touchVars,
                   timeVars, ghostVars, model, isPaused>>
    /\ UNCHANGED <<lightVars, attachSnap>>

\* Variant: the catch block of checkAssets returns true.
checkAssetsCatchTrue(rt, rm) ==
    IF rt = "reject" \/ rm = "reject"
    THEN [exist |-> TRUE, message |-> ""]
    ELSE IF rt # "ok"
    THEN [exist |-> FALSE, message |-> "Missing assets/target.mind"]
    ELSE IF rm # "ok"
    THEN [exist |-> FALSE, message |-> "Missing assets/model.glb"]
    ELSE [exist |-> TRUE, message |-> ""]

\* checkAssets(): its return value and the message it shows ("" for none),
\* from the outcomes of the target-descriptor probe and the model probe.
checkAssets(rt, rm) ==
    IF rt = "reject" \/ rm = "reject"
    THEN [exist |-> FALSE, message |-> ""]
    ELSE IF rt # "ok"
    THEN [exist |-> FALSE, message |-> "Missing assets/target.mind"]
    ELSE IF rm # "ok"
    THEN [exist |-> FALSE, message |-> "Missing assets/model.glb"]
    ELSE [exist |-> TRUE, message |-> ""]

\* Variant: setupImageTracking attaches without testing `model`.
AttachAtSetupAlways(present) == 1

\* Number of anchor.group.add(model) calls made by setupImageTracking.
AttachAtSetup(present) == IF present THEN 1 ELSE 0

\* The probes settle; init() either returns, or runs initThreeJS,
\* setupImageTracking and startAR up to `await mindarThree.start()`.
CheckAssetsSettled(rt, rm) ==
    LET r == checkAssets(rt, rm) IN
    /\ pc = "checkAssets"
    /\ lastEvent' = "checkAssets"
    /\ IF r.message # "" THEN ShowError(r.message) ELSE UNCHANGED errVars
    /\ IF ~r.exist
       THEN /\ pc' = "aborted"
            /\ UNCHANGED <<mindarThree, anchorBound, session, startCalls,
                           startARResult, callLog, attachCount>>
       ELSE /\ pc' = "startAR"
            /\ mindarThree' = TRUE
            /\ anchorBound' = TRUE
            /\ attachCount' = attachCount + AttachAtSetup(model)
            /\ callLog' = callLog \o <<"initThreeJS", "startAR">>
            /\ session' = "Starting"
            /\ startCalls' = startCalls + 1
            /\ startARResult' = "pending"
    /\ probeTarget' = rt
    /\ probeModel' = rm
    /\ UNCHANGED <<protocol, hostname, docHidden, visPending, gestureBound,
                   panelBound, animating>>
    /\ UNCHANGED <<trackVars, rotVars, scaleVars, touchVars, timeVars,
                   ghostVars, model, isPaused>>
    /\ UNCHANGED <<lightVars, attachSnap>>

\* The message startAR's catch block shows for a rejected start.
StartErrorMessage(err) ==
    CASE err = "NotAllowedError" -> "Camera permission denied"
      [] err = "NotFoundError" -> "No camera found"
      [] err = "NotReadableError" -> "Camera is already in use"
      [] err = "target" -> "Failed to load target image"
      [] OTHER -> "Failed to start AR"

\* Variant: init() goes on without calling loadModel().
AfterStartARNoLoader ==
    /\ pc' = "loadModel"
    /\ callLog' = callLog

\* What init() does once `await startAR()` returns: loadModel() is called.
AfterStartAR ==
    /\ pc' = "loadModel"
    /\ callLog' = Append(callLog, "loadModel")

\* mindarThree.start() of startAR resolves: hideLoading, then init goes on.
StartARResolved ==
    /\ pc = "startAR"
    /\ lastEvent' = "startResolved"
    /\ session' = "Running"
    /\ startARResult' = "ok"
    /\ loadingHidden' = TRUE
    /\ AfterStartAR
    /\ UNCHANGED <<protocol, hostname, probeTarget, probeModel,
                   docHidden, mindarThree, anchorBound,
                   startCalls, visPending, attachCount, gestureBound,
                   panelBound, animating>>
    /\ UNCHANGED <<errorShown, errorText, errorTimers>>
    /\ UNCHANGED <<trackVars, rotVars, scaleVars, touchVars, timeVars,
                   ghostVars, model, isPaused>>
    /\ UNCHANGED <<lightVars, attachSnap>>

\* mindarThree.start() of startAR rejects: the catch block shows the error
\* and startAR returns normally, so init goes on all the same.
StartARRejected(err) ==
    /\ pc = "startAR"
    /\ lastEvent' = "startRejected"
    /\ session' = "Stopped"
    /\ startARResult' = "failed"
    /\ ShowError(StartErrorMessage(err))
    /\ AfterStartAR
    /\ UNCHANGED <<protocol, hostname, probeTarget, probeModel,
                   docHidden, mindarThree, anchorBound,
                   startCalls, visPending, attachCount, gestureBound,
                   panelBound, animating>>
    /\ UNCHANGED <<trackVars, rotVars, scaleVars, touchVars, timeVars,
                   ghostVars, model, isPaused>>
    /\ UNCHANGED <<lightVars, attachSnap>>


\* ------------------------------------------------------------ render loop
\* Variant: the rotation step of animate() does not test isPaused.
SpinYawIgnoresPause(y, present, visible, paused) ==
    IF present /\ visible
    THEN [y EXCEPT !.hund = @ + 1] ELSE y

\* model.rotation.y after animate()'s rotation step (+0.01 when the model is
\* present, visible and the application is not paused).
SpinYaw(y, present, visible, paused) ==
    IF present /\ visible /\ ~paused
    THEN [y EXCEPT !.hund = @ + 1] ELSE y

\* Whether animate() advances the animation mixer in this frame.
MixerAdvances(present, mixer, paused) == present /\ mixer /\ ~paused

\* THREE.Clock.getDelta() at time t: 0 on the call that starts the clock,
\* afterwards the time since the previous call.
getDelta(c, t) == IF c.running THEN t - c.oldTime ELSE 0

\* The clock after getDelta() at time t.
ClockRead(c, t) == [running |-> TRUE, oldTime |-> t]

\* The body of animate() at time t, on the given pre-frame values.
AnimateFrame(y, c, mt, present, mixer, t) ==
    /\ modelRotY' = SpinYaw(y, present, isModelVisible, isPaused)
    /\ IF MixerAdvances(present, mixer, isPaused)
       THEN /\ mixerTime' = mt + getDelta(c, t)
            /\ clock' = ClockRead(c, t)
       ELSE /\ mixerTime' = mt
            /\ clock' = c

\* Variant: the loaded scene keeps its own scale.
LoadedScaleUnscaled == <<1, 1>>

\* The scale loadModel gives the loaded scene: CONFIG.modelScale.
LoadedScale == ConfigModelScale

\* The yaw of the loaded scene: loadModel does not touch its rotation.
LoadedYaw == [steps |-> 0, hund |-> 0]

\* loader.load succeeds with nAnim animation clips: the model is scaled, the
\* mixer and clock are created when there are clips, init() attaches the
\* model, binds the gesture and control-panel handlers and calls animate(),
\* whose first frame runs at once.
ModelLoaded(nAnim) ==
    /\ pc = "loadModel"
    /\ pc' = "done"
    /\ lastEvent' = "modelLoaded"
    /\ model' = TRUE
    /\ modelScaleXYZ' = LoadedScale
    /\ animationMixer' = (nAnim > 0)
    /\ attachCount' = attachCount + (IF anchorBound THEN 1 ELSE 0)
    /\ attachSnap' = IF anchorBound
                     THEN [yaw |-> LoadedYaw, scale |-> LoadedScale,
                           rotationState |-> modelRotation,
                           scaleState |-> modelScale,
                           prev |-> IF lastEvent = "click"
                                    THEN "click" ELSE "other"]
                     ELSE attachSnap
    /\ gestureBound' = TRUE
    /\ panelBound' = TRUE
    /\ animating' = TRUE
    /\ AnimateFrame(LoadedYaw,
                    [running |-> FALSE, oldTime |-> 0], 0,
                    TRUE, nAnim > 0, now)
    /\ UNCHANGED <<protocol, hostname, probeTarget, probeModel,
                   docHidden, mindarThree, anchorBound,
                   session, startCalls, visPending, startARResult, callLog>>
    /\ UNCHANGED <<errVars, trackVars, rotation, modelRotation, modelScale,
                   touchVars, now, ghostVars, isPaused>>
    /\ UNCHANGED lightVars

\* loader.load fails: loadModel rejects, init's catch block shows the error.
\* Variant: init goes on after a rejected load as after a successful one.
ModelLoadRejectedGoesOn ==
    /\ pc = "loadModel"
    /\ pc' = "failed"
    /\ lastEvent' = "modelRejected"
    /\ gestureBound' = TRUE
    /\ panelBound' = TRUE
    /\ animating' = TRUE
    /\ UNCHANGED <<protocol, hostname, probeTarget, probeModel,
                   docHidden, mindarThree, anchorBound,
                   session, startCalls, visPending, startARResult, callLog,
                   attachCount>>
    /\ UNCHANGED <<errVars, trackVars, rotVars, scaleVars, touchVars,
                   timeVars, ghostVars, model, isPaused>>
    /\ UNCHANGED <<lightVars, attachSnap>>

\* loadModel rejects: init's catch block shows the error and init ends.
ModelLoadRejected ==
    /\ pc = "loadModel"
    /\ pc' = "failed"
    /\ lastEvent' = "modelRejected"
    /\ ShowError("Initialization failed")
    /\ UNCHANGED <<protocol, hostname, probeTarget, probeModel,
                   docHidden, mindarThree, anchorBound,
                   session, startCalls, visPending, startARResult, callLog,
                   attachCount, gestureBound, panelBound, animating>>
    /\ UNCHANGED <<trackVars, rotVars, scaleVars, touchVars, timeVars,
                   ghostVars, model, isPaused>>
    /\ UNCHANGED <<lightVars, attachSnap>>

\* requestAnimationFrame callback, dt after the previous frame.
Tick(dt) ==
    /\ animating
    /\ now + dt <= MaxTime
    /\ now' = now + dt
    /\ lastEvent' = "tick"
    /\ AnimateFrame(modelRotY, clock, mixerTime, model, animationMixer,
                    now + dt)
    /\ UNCHANGED <<lifeVars, errVars, trackVars, rotation, modelRotation,
                   scaleVars, touchVars, animationMixer, ghostVars, model,
                   isPaused>>
    /\ UNCHANGED <<lightVars, attachSnap>>

\* The 5 s timer of showError fires.
ErrorTimerFires ==
    /\ errorTimers > 0
    /\ errorTimers' = errorTimers - 1
    /\ errorShown' = FALSE
    /\ lastEvent' = "errorTimer"
    /\ UNCHANGED <<errorText, loadingHidden>>
    /\ UNCHANGED <<lifeVars, trackVars, rotVars, scaleVars, touchVars,
                   timeVars, ghostVars, model, isPaused>>
    /\ UNCHANGED <<lightVars, attachSnap>>

\* History only: no pinch gesture is being followed.
PinchHistoryReset ==
    /\ gPhase' = "none"
    /\ gStartScale' = <<0, 1>>
    /\ gStartDist' = 0
    /\ gLastDist' = 0
    /\ gMidOk' = TRUE
    /\ gMoves' = 0

\* ------------------------------------------------- visibility and tracking
\* mindarThree.stop(): a running session stops.
SessionAfterStop(s) == IF s = "Running" THEN "Stopped" ELSE s

\* visibilitychange with document.hidden true.
VisibilityHidden ==
    /\ ~docHidden
    /\ docHidden' = TRUE
    /\ lastEvent' = "hidden"
    /\ session' = IF mindarThree THEN SessionAfterStop(session) ELSE session
    /\ UNCHANGED <<protocol, hostname, probeTarget, probeModel,
                   pc, mindarThree, anchorBound,
                   startCalls, visPending, startARResult, callLog,
                   attachCount, gestureBound, panelBound, animating>>
    /\ UNCHANGED <<errVars, trackVars, rotVars, scaleVars, touchVars,
                   timeVars, ghostVars, model, isPaused>>
    /\ UNCHANGED <<lightVars, attachSnap>>

\* visibilitychange with document.hidden false: start() is called again,
\* its promise is not awaited.
VisibilityVisible ==
    /\ docHidden
    /\ docHidden' = FALSE
    /\ lastEvent' = "visible"
    /\ IF mindarThree
       THEN /\ startCalls < MaxStartCalls
            /\ session' = "Starting"
            /\ startCalls' = startCalls + 1
            /\ visPending' = visPending + 1
       ELSE UNCHANGED <<session, startCalls, visPending>>
    /\ UNCHANGED <<protocol, hostname, probeTarget, probeModel,
                   pc, mindarThree, anchorBound,
                   startARResult, callLog, attachCount, gestureBound,
                   panelBound, animating>>
    /\ UNCHANGED <<errVars, trackVars, rotVars, scaleVars, touchVars,
                   timeVars, ghostVars, model, isPaused>>
    /\ UNCHANGED <<lightVars, attachSnap>>

\* A start() promise of the visibility handler settles.
VisStartSettled(ok) ==
    /\ visPending > 0
    /\ visPending' = visPending - 1
    /\ session' = IF ok THEN "Running" ELSE "Stopped"
    /\ lastEvent' = "visStart"
    /\ UNCHANGED <<protocol, hostname, probeTarget, probeModel,
                   pc, docHidden, mindarThree,
                   anchorBound, startCalls, startARResult, callLog,
                   attachCount, gestureBound, panelBound, animating>>
    /\ UNCHANGED <<errVars, trackVars, rotVars, scaleVars, touchVars,
                   timeVars, ghostVars, model, isPaused>>
    /\ UNCHANGED <<lightVars, attachSnap>>

\* anchor.onTargetFound
TargetFound ==
    /\ anchorBound /\ session = "Running"
    /\ isModelVisible' = TRUE
    /\ instructionsHidden' = TRUE
    /\ lastTrack' = "found"
    /\ lastEvent' = "targetFound"
    /\ UNCHANGED ghostVars
    /\ UNCHANGED <<lifeVars, errVars, rotVars, scaleVars, touchVars,
                   timeVars, model, isPaused>>
    /\ UNCHANGED <<lightVars, attachSnap>>

\* Variant: onTargetLost does not show the instruction prompt again.
TargetLostKeepsPromptHidden ==
    /\ anchorBound /\ session = "Running"
    /\ isModelVisible' = FALSE
    /\ instructionsHidden' = instructionsHidden
    /\ lastTrack' = "lost"
    /\ lastEvent' = "targetLost"
    /\ PinchHistoryReset
    /\ UNCHANGED <<lifeVars, errVars, rotVars, scaleVars, touchVars,
                   timeVars, model, isPaused>>
    /\ UNCHANGED <<lightVars, attachSnap>>

\* anchor.onTargetLost
TargetLost ==
    /\ anchorBound /\ session = "Running"
    /\ isModelVisible' = FALSE
    /\ instructionsHidden' = FALSE
    /\ lastTrack' = "lost"
    /\ lastEvent' = "targetLost"
    /\ PinchHistoryReset
    /\ UNCHANGED <<lifeVars, errVars, rotVars, scaleVars, touchVars,
                   timeVars, model, isPaused>>
    /\ UNCHANGED <<lightVars, attachSnap>>


\* ------------------------------------------------------------ tap handler
\* The window click listener of setupTapInteraction: its closure variable
\* after a click, and model.rotation.y after a click, given the yaw y the
\* model has when the listener runs.
TapRotation(rot, visible, present) ==
    IF visible /\ present THEN rot + 1 ELSE rot

TapYaw(rot, y, visible, present) ==
    IF visible /\ present THEN [steps |-> rot + 1, hund |-> 0] ELSE y

\* The cap on the tap counter.
TapAllowed == (isModelVisible /\ model) => rotation < MaxTaps

\* A tap / click outside the control panel.
WindowClick ==
    /\ anchorBound
    /\ TapAllowed
    /\ lastEvent' = "click"
    /\ rotation' = TapRotation(rotation, isModelVisible, model)
    /\ modelRotY' = TapYaw(rotation, modelRotY, isModelVisible, model)
    /\ UNCHANGED <<lifeVars, errVars, trackVars, modelRotation, scaleVars,
                   touchVars, timeVars, ghostVars, model, isPaused>>
    /\ UNCHANGED <<lightVars, attachSnap>>

\* ---------------------------------------------------------- touch gestures
InScaleRange(x) == x[2] # 0 /\ FLeq(ScaleMin, x) /\ FLeq(x, ScaleMax)

\* touchstart with n fingers, the first at x, the second at offset off.
TouchStart(n, x, off) ==
    /\ gestureBound
    /\ lastEvent' = "touchstart"
    /\ touchCount' = n
    /\ touchStartX' = x
    /\ touchStartDistance' = IF n = 2 /\ isModelVisible
                             THEN getDistance(off) ELSE touchStartDistance
    /\ IF n = 2 /\ isModelVisible /\ InScaleRange(modelScale)
       THEN /\ gPhase' = "active"
            /\ gStartScale' = modelScale
            /\ gStartDist' = getDistance(off)
            /\ gLastDist' = getDistance(off)
            /\ gMidOk' = TRUE
            /\ gMoves' = 0
       ELSE PinchHistoryReset
    /\ UNCHANGED <<lifeVars, errVars, trackVars, rotVars, scaleVars,
                   timeVars, model, isPaused>>
    /\ UNCHANGED <<lightVars, attachSnap>>

\* const scaleFactor = currentDistance / touchStartDistance
PinchFactor(current, start) == Frac(current, start)

\* modelScale after a pinch move
PinchScale(scale, current, start) ==
    ClampScale(FMul(scale, PinchFactor(current, start)))

\* Variant: the baseline stays the distance at the touchstart.
PinchBaselineKept(current, start) == start

\* touchStartDistance after a pinch move (the baseline is rebased)
PinchBaseline(current, start) == current

\* modelRotation after a drag move to x
DragRotation(rot, x, startX) == rot + (x - startX)

\* touchmove, the first finger at x, the second at offset off.
TouchMove(x, off) ==
    /\ gestureBound
    /\ lastEvent' = "touchmove"
    /\ IF ~isModelVisible \/ ~model \/ touchCount = 0
       THEN UNCHANGED <<rotVars, scaleVars, touchVars, ghostVars>>
       ELSE IF touchCount = 2
       THEN /\ modelScale' = PinchScale(modelScale, getDistance(off),
                                        touchStartDistance)
            /\ modelScaleXYZ' = modelScale'
            /\ touchStartDistance' = PinchBaseline(getDistance(off),
                                                   touchStartDistance)
            /\ IF gPhase = "active"
               THEN /\ gMidOk' = (gMidOk /\ InScaleRange(
                          FMul(gStartScale, Frac(gLastDist, gStartDist))))
                    /\ gLastDist' = getDistance(off)
                    /\ gMoves' = IF gMoves < 2 THEN gMoves + 1 ELSE gMoves
                    /\ UNCHANGED <<gPhase, gStartScale, gStartDist>>
               ELSE UNCHANGED ghostVars
            /\ UNCHANGED <<rotVars, touchCount, touchStartX>>
       ELSE /\ modelRotation' = DragRotation(modelRotation, x, touchStartX)
            /\ modelRotation' \in -MaxDrag..MaxDrag
            /\ modelRotY' = [steps |-> 0, hund |-> modelRotation']
            /\ touchStartX' = x
            /\ UNCHANGED <<rotation, scaleVars, touchCount,
                           touchStartDistance, ghostVars>>
    /\ UNCHANGED <<lifeVars, errVars, trackVars, timeVars, model, isPaused>>
    /\ UNCHANGED <<lightVars, attachSnap>>

\* touchend
TouchEnd ==
    /\ gestureBound
    /\ lastEvent' = "touchend"
    /\ touchCount' = 0
    /\ touchStartDistance' = 0
    /\ gPhase' = IF gPhase = "active" THEN "ended" ELSE gPhase
    /\ UNCHANGED <<gStartScale, gStartDist, gLastDist, gMidOk, gMoves>>
    /\ UNCHANGED <<lifeVars, errVars, trackVars, rotVars, scaleVars,
                   touchStartX, timeVars, model, isPaused>>
    /\ UNCHANGED <<lightVars, attachSnap>>

\* ----------------------------------------------------------- control panel
\* A click on the pause button: its own listener, then the window click
\* listener (the event bubbles).
PauseClick ==
    /\ panelBound
    /\ TapAllowed
    /\ lastEvent' = "pause"
    /\ isPaused' = ~isPaused
    /\ rotation' = TapRotation(rotation, isModelVisible, model)
    /\ modelRotY' = TapYaw(rotation, modelRotY, isModelVisible, model)
    /\ UNCHANGED <<lifeVars, errVars, trackVars, modelRotation, scaleVars,
                   touchVars, timeVars, ghostVars, model>>
    /\ UNCHANGED <<lightVars, attachSnap>>

\* The reset button's own listener: yaw, scale state, applied scale and
\* rotation state afterwards.
ResetYaw(y, present) == IF present THEN [steps |-> 0, hund |-> 0] ELSE y
ResetScale(scale, present) == IF present THEN ConfigModelScale ELSE scale
ResetRotation(rot, present) == IF present THEN 0 ELSE rot

\* A click on the reset button: its own listener, then the window click
\* listener (the event bubbles).
ResetClick ==
    /\ panelBound
    /\ TapAllowed
    /\ lastEvent' = "reset"
    /\ modelScale' = ResetScale(modelScale, model)
    /\ modelScaleXYZ' = ResetScale(modelScaleXYZ, model)
    /\ modelRotation' = ResetRotation(modelRotation, model)
    /\ rotation' = TapRotation(rotation, isModelVisible, model)
    /\ modelRotY' = TapYaw(rotation, ResetYaw(modelRotY, model),
                           isModelVisible, model)
    /\ PinchHistoryReset
    /\ UNCHANGED <<lifeVars, errVars, trackVars, touchVars, timeVars, model,
                   isPaused>>
    /\ UNCHANGED <<lightVars, attachSnap>>

\* ---------------------------------------------------------------- lighting
\* const environments = ['default', 'bright', 'dark', 'colored']
Environments == <<"default", "bright", "dark", "colored">>

\* environments[(environments.indexOf(env) + 1) % environments.length]
NextEnvironment(env) ==
    LET currentIndex == CHOOSE i \in 1..Len(Environments) : Environments[i] = env
    IN Environments[(currentIndex % Len(Environments)) + 1]

\* Variant: the default branch sets the intensity only.
ApplyAmbientKeepsColor(env, light, defined) ==
    IF ~defined THEN light
    ELSE CASE env = "bright" -> [light EXCEPT !.intensity = <<6, 5>>]
           [] env = "dark" -> [light EXCEPT !.intensity = <<3, 10>>]
           [] env = "colored" -> [color |-> "4488ff", intensity |-> <<4, 5>>]
           [] OTHER -> [light EXCEPT !.intensity = <<4, 5>>]

\* applyEnvironment() on the ambient light (`defined`: the lights exist).
ApplyAmbient(env, light, defined) ==
    IF ~defined THEN light
    ELSE CASE env = "bright" -> [light EXCEPT !.intensity = <<6, 5>>]
           [] env = "dark" -> [light EXCEPT !.intensity = <<3, 10>>]
           [] env = "colored" -> [color |-> "4488ff", intensity |-> <<4, 5>>]
           [] OTHER -> [color |-> "ffffff", intensity |-> <<4, 5>>]

\* applyEnvironment() on the directional light.
ApplyDirectional(env, light, defined) ==
    IF ~defined THEN light
    ELSE CASE env = "bright" -> [light EXCEPT !.intensity = <<1, 1>>]
           [] env = "dark" -> [light EXCEPT !.intensity = <<2, 5>>]
           [] env = "colored" -> [color |-> "ff8844", intensity |-> <<4, 5>>]
           [] OTHER -> [color |-> "ffffff", intensity |-> <<4, 5>>]

\* The lighting as a whole.
LightState == [env |-> lightingEnvironment, ambient |-> ambientLight,
               directional |-> directionalLight]

\* cycleEnvironment(): the next preset is selected and applied.  The lights
\* exist once initThreeJS has run (init stores them with mindarThree).
cycleEnvironment ==
    /\ lightingEnvironment' = NextEnvironment(lightingEnvironment)
    /\ ambientLight' = ApplyAmbient(lightingEnvironment', ambientLight,
                                    mindarThree)
    /\ directionalLight' = ApplyDirectional(lightingEnvironment',
                                            directionalLight, mindarThree)
    /\ lightHistory' = IF Len(lightHistory) = 4
                       THEN Append(Tail(lightHistory), LightState)
                       ELSE Append(lightHistory, LightState)

\* A click on the light button: its own listener, then the window click
\* listener (the event bubbles).
LightClick ==
    /\ panelBound
    /\ TapAllowed
    /\ lastEvent' = "light"
    /\ cycleEnvironment
    /\ rotation' = TapRotation(rotation, isModelVisible, model)
    /\ modelRotY' = TapYaw(rotation, modelRotY, isModelVisible, model)
    /\ UNCHANGED <<lifeVars, errVars, trackVars, modelRotation, scaleVars,
                   touchVars, timeVars, ghostVars, attachSnap, model,
                   isPaused>>

\* A click on the environment button: as the light button.
EnvClick ==
    /\ panelBound
    /\ TapAllowed
    /\ lastEvent' = "env"
    /\ cycleEnvironment
    /\ rotation' = TapRotation(rotation, isModelVisible, model)
    /\ modelRotY' = TapYaw(rotation, modelRotY, isModelVisible, model)
    /\ UNCHANGED <<lifeVars, errVars, trackVars, modelRotation, scaleVars,
                   touchVars, timeVars, ghostVars, attachSnap, model,
                   isPaused>>

\* input on the scale slider with value v
\* Variant: the slider handler stores the value without applying it.
SliderInputStateOnly(v) ==
    /\ panelBound
    /\ lastEvent' = "slider"
    /\ modelScale' = v
    /\ PinchHistoryReset
    /\ UNCHANGED <<lifeVars, errVars, trackVars, rotVars, touchVars,
                   timeVars, model, isPaused, modelScaleXYZ>>
    /\ UNCHANGED <<lightVars, attachSnap>>

SliderInput(v) ==
    /\ panelBound
    /\ lastEvent' = "slider"
    /\ modelScale' = v
    /\ modelScaleXYZ' = IF model THEN v ELSE modelScaleXYZ
    /\ PinchHistoryReset
    /\ UNCHANGED <<lifeVars, errVars, trackVars, rotVars, touchVars,
                   timeVars, model, isPaused>>
    /\ UNCHANGED <<lightVars, attachSnap>>

\* ---------------------------------------------------------- specifications
\* The startup sequence of init() and the anchor's callbacks.
Startup ==
    \/ DOMContentLoaded
    \/ \E rt \in ProbeOutcomes, rm \in ProbeOutcomes : CheckAssetsSettled(rt, rm)
    \/ StartARResolved
    \/ \E nAnim \in 0..1 : ModelLoaded(nAnim)
    \/ TargetFound
    \/ TargetLost

\* Startup with its failures, the error banner's timer and page visibility.
Next ==
    \/ Startup
    \/ \E err \in StartErrors : StartARRejected(err)
    \/ ModelLoadRejected
    \/ ErrorTimerFires
    \/ VisibilityHidden
    \/ VisibilityVisible
    \/ \E ok \in BOOLEAN : VisStartSettled(ok)

\* The page on every origin: startup, failures, visibility, tracking.
Spec == Init /\ [][Next]_vars

\* The page on a secure origin.
InitSecure == Init /\ protocol = "https:" /\ hostname = "example.org"

\* Rotation: taps, one-finger drags, pause, reset and the render loop.
NextRotation ==
    \/ Startup
    \/ WindowClick
    \/ \E x \in TouchXs : TouchStart(1, x, <<0, 0>>)
    \/ \E x \in TouchXs : TouchMove(x, <<0, 0>>)
    \/ TouchEnd
    \/ PauseClick
    \/ ResetClick
    \/ \E dt \in TickDeltas : Tick(dt)

SpecRotation == InitSecure /\ [][NextRotation]_vars

\* Scale: touches with one or two fingers, the slider and reset.
NextScale ==
    \/ Startup
    \/ \E n \in 1..2, x \in TouchXs, off \in FingerOffsets : TouchStart(n, x, off)
    \/ \E x \in TouchXs, off \in FingerOffsets : TouchMove(x, off)
    \/ TouchEnd
    \/ ResetClick
    \/ \E v \in SliderValues : SliderInput(v)

SpecScale == InitSecure /\ [][NextScale]_vars

\* Lighting: the two buttons that cycle the preset.
NextLighting ==
    \/ Startup
    \/ LightClick
    \/ EnvClick

SpecLighting == InitSecure /\ [][NextLighting]_vars

\* ------------------------------------------------------------------ claims
AssetCheckFailed ==
    \/ probeTarget \in {"notok", "reject"}
    \/ probeModel \in {"notok", "reject"}

AssetCheckPassed == probeTarget = "ok" /\ probeModel = "ok"

\* C1: when the asset check does not succeed (a probe not OK, or a probe
\* rejecting), init returns before Scene Bootstrap: in every later state the
\* tracking session object has not been constructed, start has not been
\* called, the Model Loader has not been invoked and the render loop has not
\* begun.
C1_FailedAssetCheckAbortsStartup ==
    AssetCheckFailed =>
        /\ pc = "aborted"
        /\ ~mindarThree /\ ~anchorBound
        /\ startCalls = 0 /\ session = "Idle"
        /\ callLog = <<>>
        /\ ~model /\ ~animating

\* C1 witness: the asset check failed on a missing model and the page has
\* since been hidden and shown again.
C1_Witness ==
    /\ probeTarget = "ok" /\ probeModel = "notok"
    /\ pc = "aborted"
    /\ lastEvent = "visible"

StartupOrder == <<"initThreeJS", "startAR", "loadModel">>

C3_LaterStepsGatedOnStart ==
    (\/ Len(callLog) = 3
     \/ model
     \/ attachCount > 0
     \/ gestureBound
     \/ panelBound
     \/ animating) => startARResult = "ok"

\* C4: on an origin that is not https: and whose hostname is neither
\* localhost nor 127.0.0.1, init is never scheduled and the tracking session
\* is never constructed or started, whatever visibility events occur.
C4_InsecureOriginNeverStarts ==
    (protocol # "https:" /\ hostname \notin {"localhost", "127.0.0.1"}) =>
        /\ pc = "unscheduled"
        /\ ~mindarThree
        /\ startCalls = 0 /\ session = "Idle"
        /\ callLog = <<>>

\* C4 witness: an insecure origin after the page was hidden and shown again.
C4_Witness ==
    /\ protocol = "http:" /\ hostname = "example.org"
    /\ lastEvent = "visible"

\* C10: isModelVisible is true exactly when the most recent anchor event was
\* target-found (false before any event), and the instruction prompt is
\* hidden exactly when isModelVisible is true.
C10_VisibilityFollowsLastEvent ==
    /\ isModelVisible = (lastTrack = "found")
    /\ instructionsHidden = isModelVisible

\* C10 witness: the target was lost after the model was loaded.
C10_Witness ==
    /\ lastTrack = "lost"
    /\ lastEvent = "targetLost"
    /\ model

\* The scale the claim C5 gives for the pinch gesture being followed:
\* clamp(s * r, 0.1, 2.0), s the scale at its touchstart and r the distance
\* of its last move over the distance at its touchstart.
PinchExpected == ClampScale(FMul(gStartScale, Frac(gLastDist, gStartDist)))

\* C5 as stated: a pinch gesture that starts with scale s in [0.1, 2.0] and
\* ends with overall ratio r leaves the applied scale clamp(s * r, 0.1, 2.0),
\* whatever its intermediate moves.
C5_PinchEndsAtClampedProduct ==
    (gPhase = "ended" /\ gMoves >= 1) =>
        /\ modelScale = PinchExpected
        /\ modelScaleXYZ = PinchExpected

\* C5 amended: the same, for gestures in which every move before the last
\* kept s * (distance of the move / distance at touchstart) within
\* [0.1, 2.0].
C5_PinchEndsAtClampedProductUnsaturated ==
    (gPhase = "ended" /\ gMoves >= 1 /\ gMidOk) =>
        /\ modelScale = PinchExpected
        /\ modelScaleXYZ = PinchExpected

\* C5 witness: a pinch of two or more moves has ended, no move before the
\* last left the range, and the last move was clamped at the upper limit.
C5_Witness ==
    /\ gPhase = "ended" /\ gMoves >= 2 /\ gMidOk
    /\ lastEvent = "touchend"
    /\ gStartScale # ScaleMax
    /\ modelScaleXYZ = ScaleMax
    /\ FLess(ScaleMax, FMul(gStartScale, Frac(gLastDist, gStartDist)))

\* C6: a tap while the target is visible and the model attached makes the
\* model's yaw exactly one fixed step greater than it was immediately before
\* the tap; a tap while the target is not visible leaves the yaw unchanged.
C6_TapAddsOneStep ==
    [][lastEvent' = "click" =>
         modelRotY' = IF isModelVisible /\ model
                      THEN [modelRotY EXCEPT !.steps = @ + 1]
                      ELSE modelRotY]_vars

\* C7: after the reset control is pressed, modelRotation and the model's yaw
\* are 0 and modelScale and the model's applied scale are the configured
\* default.
C7_ResetRestoresDefaults ==
    lastEvent = "reset" =>
        /\ modelRotation = 0
        /\ modelRotY = [steps |-> 0, hund |-> 0]
        /\ modelScale = ConfigModelScale
        /\ modelScaleXYZ = ConfigModelScale

\* C8: a render-loop tick changes the model's yaw only when the target is
\* visible and the application is not paused, and changes the animation
\* playback time only when not paused; a tick while paused leaves both
\* unchanged.
C8_TickRespectsPauseAndVisibility ==
    [][lastEvent' = "tick" =>
         /\ (modelRotY' # modelRotY => isModelVisible /\ ~isPaused)
         /\ (mixerTime' # mixerTime => ~isPaused)
         /\ (isPaused => modelRotY' = modelRotY /\ mixerTime' = mixerTime)]_vars

\* C8 witness: ticks spanning two or more frame intervals have run while
\* paused, with the target visible and an animation playing, and neither the
\* yaw nor the playback time has moved.
C8_Witness ==
    /\ lastEvent = "tick"
    /\ isPaused /\ isModelVisible /\ model /\ animationMixer
    /\ clock.running
    /\ now - clock.oldTime >= 2
    /\ mixerTime = 0
    /\ modelRotY.hund = 0

\* C9: every unpaused render tick, the first after a pause included,
\* advances the animation playback time by the wall-clock time elapsed since
\* the immediately preceding tick.
C9_TickAdvancesByFrameTime ==
    [][(lastEvent' = "tick" /\ ~isPaused /\ model /\ animationMixer
          /\ clock.running) =>
         mixerTime' - mixerTime = now' - now]_vars

\* The successor of a preset in the order default, bright, dark, colored.
ClaimedSuccessor(env) ==
    CASE env = "default" -> "bright"
      [] env = "bright" -> "dark"
      [] env = "dark" -> "colored"
      [] env = "colored" -> "default"

\* C11: the presets cycle in the order default, bright, dark, colored with
\* period 4: after four consecutive cycle calls (from either button) the
\* preset and both lights' intensities and colours are what they were before
\* the four calls; and the lights' colours differ from white exactly while
\* the preset is 'colored'.
C11_LightingCyclesWithPeriodFour ==
    /\ Len(lightHistory) = 4 => lightHistory[1] = LightState
    /\ \A i \in 1..Len(lightHistory) :
          ClaimedSuccessor(lightHistory[i].env) =
              IF i < Len(lightHistory) THEN lightHistory[i + 1].env
              ELSE lightingEnvironment
    /\ (lightingEnvironment = "colored") = (ambientLight.color # "ffffff")
    /\ (lightingEnvironment = "colored") = (directionalLight.color # "ffffff")

\* C11 witness: at least four cycle calls have been made, the last from the
\* environment button, and the preset is 'colored' again.
C11_Witness ==
    /\ Len(lightHistory) = 4
    /\ lightingEnvironment = "colored"
    /\ lightHistory[1].env = "colored"
    /\ lastEvent = "env"

\* C12: whenever the asset check returns false, a notification naming the
\* missing file (target descriptor or model) has been shown, for every
\* failure outcome of the two probes, a rejecting probe included.
C12_FailedCheckNamesMissingFile ==
    AssetCheckFailed =>
        errorText \in {"Missing assets/target.mind",
                       "Missing assets/model.glb"}

\* C13: once the start requested by startAR has failed, start is never
\* invoked on the tracking session again.
C13_NoStartAfterFailedStart ==
    [][startARResult = "failed" => startCalls' = startCalls]_vars

\* C14: on an insecure origin the transport-security banner stays visible
\* in every state of the page.
C14_InsecureBannerPersists ==
    IsInsecureOrigin(protocol, hostname) => errorShown

\* C15: in every state in which the model is present, the model's yaw equals
\* the rotation state modelRotation.
C15_YawEqualsRotationState ==
    model => modelRotY = [steps |-> 0, hund |-> modelRotation]

\* C16: in every state in which the model is present, the model's uniform
\* scale equals the scale state modelScale, after any sequence of pinch
\* moves, slider inputs and resets.
C16_ScaleEqualsScaleState ==
    model => modelScaleXYZ = modelScale

\* C16 witness: the model is present and the last input, a pinch move or a
\* slider input, left a scale other than the configured one.
C16_Witness ==
    /\ model
    /\ lastEvent \in {"touchmove", "slider"}
    /\ modelScale # ConfigModelScale
    /\ gMoves > 0

\* C17: at the moment the freshly loaded model is attached to the anchor,
\* its scale equals the scale state and its yaw equals the rotation state,
\* whatever clicks and tracking events came between session start and the
\* completion of the load.
C17_AttachedModelCarriesState ==
    attachCount > 0 =>
        /\ attachSnap.scale = attachSnap.scaleState
        /\ attachSnap.yaw = [steps |-> 0, hund |-> attachSnap.rotationState]

\* C17 witness: the model was attached right after a click, with the target
\* already found.
C17_Witness ==
    /\ attachCount > 0
    /\ attachSnap.prev = "click"
    /\ lastEvent = "modelLoaded"
    /\ isModelVisible

\* C18: at most one model is loaded and it is attached to the anchor at most
\* once, and only once it exists, whatever stop/start cycles the page's
\* visibility causes.
C18_AtMostOneModelOneAttachment ==
    /\ attachCount <= 1
    /\ attachCount = 1 => model
    /\ Cardinality({i \in 1..Len(callLog) : callLog[i] = "loadModel"}) <= 1
    /\ model => attachCount = 1

\* C18 witness: the model is attached and a restart requested by the
\* visibility handler has settled since.
C18_Witness ==
    /\ model
    /\ attachCount = 1
    /\ lastEvent = "visStart"
    /\ startCalls > 1

\* C19: start is invoked on the session only while it is Idle or Stopped,
\* never while it is Starting or Running.
C19_StartOnlyFromIdleOrStopped ==
    [][startCalls' # startCalls => session \in {"Idle", "Stopped"}]_vars

\* C20: if the Model Loader rejects, the error banner is shown and, in every
\* later state, no model is attached, the gesture and control-panel handlers
\* are not bound and the render loop has not begun.
C20_RejectedLoadIsTerminal ==
    pc = "failed" =>
        /\ errorText = "Initialization failed"
        /\ ~model
        /\ attachCount = 0
        /\ ~gestureBound
        /\ ~panelBound
        /\ ~animating

\* C20 witness: the load was rejected and the page has since been hidden and
\* shown again, the restart having settled.
C20_Witness ==
    /\ pc = "failed"
    /\ lastEvent = "visStart"
    /\ ~docHidden

\* C21: every pinch move that changes the scale divides by a baseline
\* distance that is strictly positive and was captured at the two-finger
\* touchstart of the current gesture or at a previous move of that gesture,
\* whatever target-found and target-lost events come in between.
C21_PinchBaselineFromCurrentGesture ==
    [][(lastEvent' = "touchmove" /\ modelScale' # modelScale) =>
           /\ touchStartDistance > 0
           /\ gPhase = "active"
           /\ touchStartDistance = gLastDist]_vars

=============================================================================
